---- MODULE Spec2Model ----
(***************************************************************************)
(* A model of locast2dvr's SSDP discovery server                           *)
(* (src/locast2dvr/ssdp/server.py, class SSDPServer).                      *)
(*                                                                         *)
(* The registry `known` is the class attribute SSDPServer.known, a Python  *)
(* dict: it is modelled by the function `known` together with `order`, the *)
(* insertion order of its keys (Python dicts iterate in insertion order).  *)
(* Every call of socket.sendto is logged in `out`, the list of the sends   *)
(* attempted by the most recent operation, each with its outcome.  `last`  *)
(* describes the most recent operation and the exception, if any, that it  *)
(* ended with.                                                             *)
(***************************************************************************)
EXTENDS Integers, Sequences, FiniteSets, TLC

(* ------------------------------------------------------------------ *)
(* Program constants                                                    *)
(* ------------------------------------------------------------------ *)

SSDP_PORT == 1900

SSDP_ADDR == "239.255.255.250"

SERVER_ID == "ZeWaren example SSDP Server"

\* Python's None (self.sock before run(), the default of host=).
None == "None"

(* ------------------------------------------------------------------ *)
(* Bounds of the model                                                  *)
(* ------------------------------------------------------------------ *)

\* Largest MX value carried by a query (the MX header is an integer).
MaxMX == 0

\* Server objects that may exist; Init constructs the first one only.
AllServers == {"A", "B"}

\* Unique service names handed to register/unregister/do_notify/do_byebye.
USNS == {"uuid:1::urn:test:device", "uuid:2::upnp:rootdevice"}

\* The arguments st, location, server, cache_control and host of register():
\* one call that leaves the optional arguments at the defaults of the
\* signature, and one that overrides all of them.
CALLS ==
    { [st |-> "urn:test:device", location |-> "http://10.0.0.5:6077/device.xml",
       server |-> SERVER_ID, cache_control |-> "max-age=1800", host |-> None],
      [st |-> "upnp:rootdevice", location |-> "http://10.0.0.5:6078/lineup.xml",
       server |-> "locast2dvr", cache_control |-> "max-age=60", host |-> "10.0.0.5"] }

\* Search targets of records and of queries.
STS == { c.st : c \in CALLS }

\* (host, port) of the peers that send datagrams.
PEERS == { <<"10.0.0.9", 50000>>, <<"10.0.0.7", 50001>> }

\* The values time.time() returns and formatdate() formats.  No operation
\* branches on the time, so the model runs at one instant.
Times == {1}

\* A header that the datagram does not carry.
NoHeader == "<absent>"

\* Values of the ST header of an M-SEARCH.
ST_HEADERS == STS \cup {"ssdp:all", NoHeader}

\* Values of the MX header of an M-SEARCH: absent, not a number, or the
\* decimal text of an integer (negative ones included).
MX_HEADERS == {NoHeader, "abc"} \cup { ToString(n) : n \in -1..MaxMX }

(* ------------------------------------------------------------------ *)
(* State                                                                *)
(* ------------------------------------------------------------------ *)

VARIABLES
    known,     \* SSDPServer.known: usn -> record (shared by all instances)
    order,     \* the keys of `known` in insertion order
    live,      \* the SSDPServer objects that have been constructed
    sock,      \* self.sock of each object: None or "socket"
    pc,        \* the thread started by start(): "idle", "setup", "loop", "dead"
    out,       \* the sendto calls of the most recent operation
    last,      \* the most recent operation and how it ended
    caller     \* the call of register() or shutdown() that a second thread is inside

vars == <<known, order, live, sock, pc, out, last, caller>>

(* ------------------------------------------------------------------ *)
(* Records of the registry                                              *)
(* ------------------------------------------------------------------ *)

\* The keys of a record in the order register() inserts them.
RecordKeys ==
    << "USN", "LOCATION", "ST", "EXT", "SERVER", "CACHE-CONTROL",
       "MANIFESTATION", "SILENT", "HOST", "last-seen" >>

\* The dict that register() builds at self.known[usn].
NewRecord(manifestation, usn, st, location, server, cache_control, silent, host, now) ==
    [ k \in { RecordKeys[n] : n \in 1..Len(RecordKeys) } |->
        CASE k = "USN" -> usn
          [] k = "LOCATION" -> location
          [] k = "ST" -> st
          [] k = "EXT" -> ""
          [] k = "SERVER" -> server
          [] k = "CACHE-CONTROL" -> cache_control
          [] k = "MANIFESTATION" -> manifestation
          [] k = "SILENT" -> silent
          [] k = "HOST" -> host
          [] k = "last-seen" -> now ]

\* usn in self.known
is_known(usn) == usn \in DOMAIN known

\* '%s' % v for the value stored under key k.
Str(k, v) == IF k = "last-seen" THEN ToString(v) ELSE v

\* formatdate(timeval=None, localtime=False, usegmt=True) at clock value now.
formatdate(now) == ToString(now)

\* One call of socket.sendto: the text, whether it was .encode()d, the
\* destination and the outcome ("ok", "socket.error", "TypeError").
Sent(start, headers, encoded, destination, res) ==
    [ start |-> start, headers |-> headers, encoded |-> encoded,
      dst |-> destination, res |-> res ]

\* The headers of a message as a key -> value function (first occurrence).
HeaderOf(d, key) ==
    LET hits == { n \in 1..Len(d.headers) : d.headers[n][1] = key }
    IN IF hits = {} THEN NoHeader
       ELSE d.headers[CHOOSE n \in hits : \A m \in hits : n <= m][2]

(* ------------------------------------------------------------------ *)
(* The socket                                                           *)
(* ------------------------------------------------------------------ *)

\* The multicast group every announcement is addressed to.
Group == <<SSDP_ADDR, SSDP_PORT>>

\* socket.sendto(data, address): data must be bytes, a str raises TypeError
\* before anything is transmitted; otherwise the network decides (res).
sendto(encoded, res) == IF encoded THEN res ELSE "TypeError"

(* ------------------------------------------------------------------ *)
(* Discovery responder                                                  *)
(* ------------------------------------------------------------------ *)

\* send_it that sends the response again after a sendto that failed.
send_it_retry(sk, start, headers, destination, res) ==
    IF sk = None THEN <<>>
    ELSE IF sendto(TRUE, res) # "ok"
    THEN << Sent(start, headers, TRUE, destination, sendto(TRUE, res)),
            Sent(start, headers, TRUE, destination, "ok") >>
    ELSE << Sent(start, headers, TRUE, destination, sendto(TRUE, res)) >>

\* send_it: sendto of the encoded response; AttributeError (self.sock is
\* None) and socket.error are logged and swallowed.
send_it(sk, start, headers, destination, res) ==
    IF sk = None THEN <<>>
    ELSE << Sent(start, headers, TRUE, destination, sendto(TRUE, res)) >>

\* Answers without the comparison of the record's ST with the query's.
Answers_any_target(i, st) ==
    IF i["MANIFESTATION"] = "remote" THEN FALSE
    ELSE IF st = "ssdp:all" /\ i["SILENT"] THEN FALSE
    ELSE TRUE

\* Answers without the test of SILENT.
Answers_silent_too(i, st) ==
    IF i["MANIFESTATION"] = "remote" THEN FALSE
    ELSE i["ST"] = st \/ st = "ssdp:all"

\* Answers with SILENT tested for every search target.
Answers_silent_never(i, st) ==
    IF i["MANIFESTATION"] = "remote" THEN FALSE
    ELSE IF i["SILENT"] THEN FALSE
    ELSE i["ST"] = st \/ st = "ssdp:all"

\* Answers without the test of MANIFESTATION.
Answers_remote_too(i, st) ==
    IF st = "ssdp:all" /\ i["SILENT"] THEN FALSE
    ELSE i["ST"] = st \/ st = "ssdp:all"

\* The filter of discovery_request: is record i answered for search target st?
Answers(i, st) ==
    IF i["MANIFESTATION"] = "remote" THEN FALSE
    ELSE IF st = "ssdp:all" /\ i["SILENT"] THEN FALSE
    ELSE i["ST"] = st \/ st = "ssdp:all"

\* The header lines of the response for record i: every item of the record
\* except MANIFESTATION, SILENT and HOST, then DATE.
ResponseHeaders(i, now) ==
    LET keys == SelectSeq(RecordKeys,
                    LAMBDA k : k \in DOMAIN i
                               /\ k \notin {"MANIFESTATION", "SILENT", "HOST"})
    IN [ n \in 1..Len(keys) |-> <<keys[n], Str(keys[n], i[keys[n]])>> ]
         \o << <<"DATE", formatdate(now)>> >>

\* Does the filter of discovery_request read a key that record i lacks?
\* i['MANIFESTATION'] is read first, i['SILENT'] for ssdp:all only, i['ST']
\* when neither of the two made the loop continue.
MissingKey(i, st) ==
    IF "MANIFESTATION" \notin DOMAIN i THEN TRUE
    ELSE IF i["MANIFESTATION"] = "remote" THEN FALSE
    ELSE IF st = "ssdp:all" /\ "SILENT" \notin DOMAIN i THEN TRUE
    ELSE IF st = "ssdp:all" /\ i["SILENT"] THEN FALSE
    ELSE "ST" \notin DOMAIN i

\* MxError with a default for a query without MX (headers.get('mx', 0)).
MxError_default(mx) ==
    IF mx = NoHeader THEN "none"
    ELSE IF \A n \in -1..MaxMX : ToString(n) # mx THEN "ValueError"
    ELSE IF (CHOOSE n \in -1..MaxMX : ToString(n) = mx) < 0 THEN "ValueError"
    ELSE "none"

\* random.randint(0, int(headers['mx'])): the exception it raises, if any.
\* KeyError without the header, ValueError when int() cannot parse the text
\* or when the range 0..mx is empty.
MxError(mx) ==
    IF mx = NoHeader THEN "KeyError"
    ELSE IF \A n \in -1..MaxMX : ToString(n) # mx THEN "ValueError"
    ELSE IF (CHOOSE n \in -1..MaxMX : ToString(n) = mx) < 0 THEN "ValueError"
    ELSE "none"

\* The loop of discovery_request over list(self.known.values()); keys is
\* the rest of the registry's keys in iteration order, fails the usns whose
\* sendto raises socket.error.  A record without USN leaves usn at None,
\* which `if usn:` skips like the empty string.
RECURSIVE discovery_loop(_, _, _, _, _, _, _)
discovery_loop(kn, keys, sk, headers, host_port, now, fails) ==
    IF keys = <<>> THEN [out |-> <<>>, exc |-> "none"]
    ELSE
      LET i    == kn[Head(keys)]
          rest == discovery_loop(kn, Tail(keys), sk, headers, host_port, now, fails)
          usn  == IF "USN" \in DOMAIN i THEN i["USN"] ELSE ""
      IN IF MissingKey(i, headers.st) THEN [out |-> <<>>, exc |-> "KeyError"]
         ELSE IF ~Answers(i, headers.st) \/ usn = "" THEN rest
         ELSE IF MxError(headers.mx) # "none"
              THEN [out |-> <<>>, exc |-> MxError(headers.mx)]
         ELSE [ out |-> send_it(sk, "HTTP/1.1 200 OK", ResponseHeaders(i, now),
                                host_port,
                                IF usn \in fails THEN "socket.error" ELSE "ok")
                          \o rest.out,
                exc |-> rest.exc ]

\* discovery_request(headers, host_port): headers['st'] is read first, for
\* the log line, and raises KeyError when the query has no ST header.
discovery_request(kn, keys, sk, headers, host_port, now, fails) ==
    IF headers.st = NoHeader THEN [out |-> <<>>, exc |-> "KeyError"]
    ELSE discovery_loop(kn, keys, sk, headers, host_port, now, fails)

(* ------------------------------------------------------------------ *)
(* Presence announcer                                                   *)
(* ------------------------------------------------------------------ *)

\* The items of stcpy: the record with NT added at the end and ST,
\* MANIFESTATION, SILENT, HOST and last-seen deleted, each joined by ': '.
AnnouncementItems(i) ==
    LET keys == SelectSeq(RecordKeys,
                    LAMBDA k : k \notin {"ST", "MANIFESTATION", "SILENT",
                                         "HOST", "last-seen"})
    IN [ n \in 1..Len(keys) |-> <<keys[n], i[keys[n]]>> ]
         \o << <<"NT", i["ST"]>> >>

\* The lines of a NOTIFY message of kind nts for record i.
AnnouncementHeaders(i, nts) ==
    << <<"HOST", SSDP_ADDR \o ":" \o ToString(SSDP_PORT)>>, <<"NTS", nts>> >>
      \o AnnouncementItems(i)

\* do_notify without the early return for a silent record.
do_notify_silent_too(kn, sk, usn, r1, r2) ==
    IF usn \notin DOMAIN kn THEN [out |-> <<>>, exc |-> "KeyError"]
    ELSE
      LET hs     == AnnouncementHeaders(kn[usn], "ssdp:alive")
          first  == Sent("NOTIFY * HTTP/1.1", hs, TRUE, Group, sendto(TRUE, r1))
          second == Sent("NOTIFY * HTTP/1.1", hs, TRUE, Group, sendto(TRUE, r2))
      IN IF sk = None THEN [out |-> <<>>, exc |-> "none"]
         ELSE IF first.res # "ok" THEN [out |-> <<first>>, exc |-> "none"]
         ELSE [out |-> <<first, second>>, exc |-> "none"]

\* do_notify(usn): r1 and r2 are the outcomes of the first and the second
\* sendto.  Both calls stand in one try block.
do_notify(kn, sk, usn, r1, r2) ==
    IF usn \notin DOMAIN kn THEN [out |-> <<>>, exc |-> "KeyError"]
    ELSE IF kn[usn]["SILENT"] THEN [out |-> <<>>, exc |-> "none"]
    ELSE
      LET hs     == AnnouncementHeaders(kn[usn], "ssdp:alive")
          first  == Sent("NOTIFY * HTTP/1.1", hs, TRUE, Group, sendto(TRUE, r1))
          second == Sent("NOTIFY * HTTP/1.1", hs, TRUE, Group, sendto(TRUE, r2))
      IN IF sk = None THEN [out |-> <<>>, exc |-> "none"]
         ELSE IF first.res # "ok" THEN [out |-> <<first>>, exc |-> "none"]
         ELSE [out |-> <<first, second>>, exc |-> "none"]

\* do_byebye without the except KeyError around the building of the message.
do_byebye_uncaught(kn, sk, usn, res) ==
    IF usn \notin DOMAIN kn THEN [out |-> <<>>, exc |-> "KeyError"]
    ELSE
      LET hs == AnnouncementHeaders(kn[usn], "ssdp:byebye")
          d  == Sent("NOTIFY * HTTP/1.1", hs, FALSE, Group, sendto(FALSE, res))
      IN IF sk = None THEN [out |-> <<>>, exc |-> "none"]
         ELSE [ out |-> <<d>>,
                exc |-> IF d.res \in {"ok", "socket.error"} THEN "none" ELSE d.res ]

\* do_byebye(usn): the message is passed to sendto as a str; KeyError while
\* building is caught, as are AttributeError and socket.error while sending.
do_byebye(kn, sk, usn, res) ==
    IF usn \notin DOMAIN kn THEN [out |-> <<>>, exc |-> "none"]
    ELSE
      LET hs == AnnouncementHeaders(kn[usn], "ssdp:byebye")
          d  == Sent("NOTIFY * HTTP/1.1", hs, FALSE, Group, sendto(FALSE, res))
      IN IF sk = None THEN [out |-> <<>>, exc |-> "none"]
         ELSE [ out |-> <<d>>,
                exc |-> IF d.res \in {"ok", "socket.error"} THEN "none" ELSE d.res ]

\* shutdown(): do_byebye for every local record, in iteration order; an
\* exception of do_byebye ends the loop.
RECURSIVE shutdown(_, _, _, _)
shutdown(kn, keys, sk, res) ==
    IF keys = <<>> THEN [out |-> <<>>, exc |-> "none"]
    ELSE IF kn[Head(keys)]["MANIFESTATION"] = "local"
         THEN LET b == do_byebye(kn, sk, Head(keys), res)
                  r == shutdown(kn, Tail(keys), sk, res)
              IN IF b.exc # "none" THEN b
                 ELSE [out |-> b.out \o r.out, exc |-> r.exc]
         ELSE shutdown(kn, Tail(keys), sk, res)

(* ------------------------------------------------------------------ *)
(* Registry                                                             *)
(* ------------------------------------------------------------------ *)

\* Store that rebinds the registry to a dict holding the new entry alone.
Store_alone(kn, usn, rec) == [ u \in {usn} |-> rec ]

\* self.known[usn] = {...}: insert or replace the entry at usn.
Store(kn, usn, rec) ==
    [ u \in DOMAIN kn \cup {usn} |-> IF u = usn THEN rec ELSE kn[u] ]

\* The key order after self.known[usn] = ...: a new key goes to the end, a
\* key that is present keeps its place.
StoreOrder(kn, keys, usn) ==
    IF usn \in DOMAIN kn THEN keys ELSE Append(keys, usn)

\* Delete that removes the entry inserted first instead of the one at usn.
Delete_first(kn, usn) ==
    LET v == IF Len(order) > 0 THEN order[1] ELSE usn
    IN [ u \in DOMAIN kn \ {v} |-> kn[u] ]

\* del self.known[usn]
Delete(kn, usn) == [ u \in DOMAIN kn \ {usn} |-> kn[u] ]

DeleteOrder(keys, usn) == SelectSeq(keys, LAMBDA u : u # usn)

\* What `last` says about an operation.
Op(op, self, usn, rec, headers, src, exc) ==
    [ op |-> op, self |-> self, usn |-> usn, rec |-> rec,
      headers |-> headers, src |-> src, exc |-> exc ]

SendResults == {"ok", "socket.error"}

\* The value of `caller` while no call of register() is in progress.
NoCall ==
    [ op |-> None, self |-> None, usn |-> None, n |-> 0, rec |-> << >>,
      size |-> 0, written |-> FALSE ]

(* ------------------------------------------------------------------ *)
(* Codec: the text of a datagram                                        *)
(* ------------------------------------------------------------------ *)

CRLF == "\r\n"

\* str.find(sub, from): the least index >= from at which sub occurs in s,
\* 0 when there is none (indices count from 1).
find(s, sub, from) ==
    LET hits == { i \in from..(Len(s) - Len(sub) + 1) :
                    SubSeq(s, i, i + Len(sub) - 1) = sub }
    IN IF hits = {} THEN 0 ELSE CHOOSE i \in hits : \A j \in hits : i <= j

\* s.split(sep)
RECURSIVE split(_, _)
split(s, sep) ==
    LET i == find(s, sep, 1)
    IN IF i = 0 THEN << s >>
       ELSE << SubSeq(s, 1, i - 1) >> \o split(SubSeq(s, i + Len(sep), Len(s)), sep)

\* s.split(sep, 1)
split_1(s, sep) ==
    LET i == find(s, sep, 1)
    IN IF i = 0 THEN << s >>
       ELSE << SubSeq(s, 1, i - 1), SubSeq(s, i + Len(sep), Len(s)) >>

\* s.replace(old, new, 1)
replace_1(s, old, new) ==
    LET i == find(s, old, 1)
    IN IF i = 0 THEN s
       ELSE SubSeq(s, 1, i - 1) \o new \o SubSeq(s, i + Len(old), Len(s))

\* s.lower() for ASCII text.
RECURSIVE lower(_)
lower(s) ==
    IF Len(s) = 0 THEN ""
    ELSE LET upper == "ABCDEFGHIJKLMNOPQRSTUVWXYZ"
             small == "abcdefghijklmnopqrstuvwxyz"
             c     == SubSeq(s, 1, 1)
             hits  == { i \in 1..26 : SubSeq(upper, i, i) = c }
         IN (IF hits = {} THEN c
             ELSE LET i == CHOOSE i \in hits : TRUE IN SubSeq(small, i, i))
            \o lower(SubSeq(s, 2, Len(s)))

\* sep.join(lines)
RECURSIVE join(_, _)
join(lines, sep) ==
    IF Len(lines) = 0 THEN ""
    ELSE IF Len(lines) = 1 THEN lines[1]
    ELSE lines[1] \o sep \o join(Tail(lines), sep)

\* The text handed to sendto for message d: the start line, one 'K: v' line
\* for each header, and the two empty strings of resp.extend(('', '')),
\* joined by CRLF.
Encode(d) ==
    join(<< d.start >>
           \o [ n \in 1..Len(d.headers) |-> d.headers[n][1] \o ": " \o d.headers[n][2] ]
           \o << "", "" >>,
         CRLF)

\* unpack that lets the ValueError of the unpacking escape.
unpack_uncaught(data) ==
    LET parts == split(data, CRLF \o CRLF)
    IN IF Len(parts) < 2 THEN [ok |-> FALSE, exc |-> "ValueError", header |-> ""]
       ELSE [ok |-> TRUE, exc |-> "none", header |-> parts[1]]

\* header, payload = data.decode().split('\r\n\r\n')[:2]: with fewer than two
\* parts the unpacking raises ValueError, which is caught and logged; the
\* handler returns.
unpack(data) ==
    LET parts == split(data, CRLF \o CRLF)
    IN IF Len(parts) < 2 THEN [ok |-> FALSE, exc |-> "none", header |-> ""]
       ELSE [ok |-> TRUE, exc |-> "none", header |-> parts[1]]

\* split_header that splits at every colon (x.split(':')).
split_header_all(x) == split(x, ":")

\* x.split(':', 1) for a header line x.
split_header(x) == split_1(x, ":")

\* dict(pairs): of two pairs with the same key the later one wins.
dict(pairs) ==
    [ k \in { pairs[n][1] : n \in 1..Len(pairs) } |->
        LET hits == { n \in 1..Len(pairs) : pairs[n][1] = k }
        IN pairs[CHOOSE n \in hits : \A m \in hits : m <= n][2] ]

\* The parser of datagram_received: the tokens of the first line and the
\* dict of the header lines, keys in lower case.  A header line without a
\* colon (x[1]) and a first line of one token (cmd[1]) raise IndexError.
parse(header) ==
    LET lines == split(header, CRLF)
        cmd   == split(lines[1], " ")
        l1    == [ n \in 1..(Len(lines) - 1) |-> replace_1(lines[n + 1], ": ", ":") ]
        l2    == SelectSeq(l1, LAMBDA x : Len(x) > 0)
        hs    == [ n \in 1..Len(l2) |-> split_header(l2[n]) ]
    IN IF \E n \in 1..Len(hs) : Len(hs[n]) < 2
       THEN [exc |-> "IndexError", cmd |-> cmd, headers |-> << >>]
       ELSE IF Len(cmd) < 2
       THEN [exc |-> "IndexError", cmd |-> cmd, headers |-> << >>]
       ELSE [exc |-> "none", cmd |-> cmd,
             headers |-> dict([ n \in 1..Len(hs) |-> << lower(hs[n][1]), hs[n][2] >> ])]

\* headers[key] where the responder reads it, NoHeader when it is absent.
Get(headers, key) == IF key \in DOMAIN headers THEN headers[key] ELSE NoHeader

\* dispatch that treats a NOTIFY * as a query for its NT.
dispatch_notify_search(kn, keys, sk, p, host_port, now, fails) ==
    IF p.cmd[1] = "M-SEARCH" /\ p.cmd[2] = "*"
    THEN discovery_request(kn, keys, sk,
                           [st |-> Get(p.headers, "st"), mx |-> Get(p.headers, "mx")],
                           host_port, now, fails)
    ELSE IF p.cmd[1] = "NOTIFY" /\ p.cmd[2] = "*"
    THEN discovery_request(kn, keys, sk,
                           [st |-> Get(p.headers, "nt"), mx |-> "0"],
                           host_port, now, fails)
    ELSE [out |-> << >>, exc |-> "none"]

\* The dispatch of datagram_received on the parsed command p: M-SEARCH * goes
\* to discovery_request, NOTIFY * and every other command are only logged.
dispatch(kn, keys, sk, p, host_port, now, fails) ==
    IF p.cmd[1] = "M-SEARCH" /\ p.cmd[2] = "*"
    THEN discovery_request(kn, keys, sk,
                           [st |-> Get(p.headers, "st"), mx |-> Get(p.headers, "mx")],
                           host_port, now, fails)
    ELSE [out |-> << >>, exc |-> "none"]

\* datagram_received(data, host_port) on the text of a datagram: the sends it
\* makes, the exception it ends with, and what it parsed.
datagram_received_data(kn, keys, sk, data, host_port, now, fails) ==
    LET u == unpack(data)
        p == parse(u.header)
    IN IF ~u.ok THEN [out |-> << >>, exc |-> u.exc, cmd |-> << >>, headers |-> << >>]
       ELSE IF p.exc # "none"
       THEN [out |-> << >>, exc |-> p.exc, cmd |-> p.cmd, headers |-> p.headers]
       ELSE LET r == dispatch(kn, keys, sk, p, host_port, now, fails)
            IN [out |-> r.out, exc |-> r.exc, cmd |-> p.cmd, headers |-> p.headers]

(* ------------------------------------------------------------------ *)
(* Operations                                                          *)
(* ------------------------------------------------------------------ *)

Init ==
    /\ known = << >>
    /\ order = << >>
    /\ live = {"A"}
    /\ sock = [ s \in AllServers |-> None ]
    /\ pc = [ s \in AllServers |-> "idle" ]
    /\ out = << >>
    /\ last = Op("init", None, None, None, None, None, "none")
    /\ caller = NoCall

\* The outcomes of the two sendto calls of do_notify; the second is not
\* reached when the first raises.
SendPairs == { <<"ok", "ok">>, <<"ok", "socket.error">>, <<"socket.error", "ok">> }

NoSends == [out |-> << >>, exc |-> "none"]

\* register(manifestation, usn, st, location, server, cache_control, silent,
\* host): store the record, then do_notify if it is local and self.sock is set.
register ==
    \E self \in live, manifestation \in {"local", "remote"}, usn \in USNS,
       call \in CALLS, silent \in BOOLEAN, now \in Times :
      LET rec == NewRecord(manifestation, usn, call.st, call.location, call.server,
                           call.cache_control, silent, call.host, now)
          kn  == Store(known, usn, rec)
      IN \E n \in IF manifestation = "local" /\ sock[self] # None
                  THEN { do_notify(kn, sock[self], usn, rs[1], rs[2]) : rs \in SendPairs }
                  ELSE { NoSends } :
           /\ known' = kn
           /\ order' = StoreOrder(known, order, usn)
           /\ out' = n.out
           /\ last' = Op("register", self, usn,
                         [ manifestation |-> manifestation, st |-> call.st,
                           location |-> call.location, server |-> call.server,
                           cache_control |-> call.cache_control,
                           silent |-> silent, host |-> call.host ],
                         None, None, n.exc)
           /\ UNCHANGED <<caller, live, sock, pc>>

\* unregister that tolerates a usn that is absent (self.known.pop(usn, None)).
unregister_pop ==
    \E self \in live, usn \in USNS :
      /\ known' = Delete(known, usn)
      /\ order' = DeleteOrder(order, usn)
      /\ last' = Op("unregister", self, usn, None, None, None, "none")
      /\ out' = << >>
      /\ UNCHANGED <<caller, live, sock, pc>>

\* unregister that announces the withdrawal (do_byebye) before the del.
unregister_byebye ==
    \E self \in live, usn \in USNS :
      /\ IF usn \in DOMAIN known
         THEN /\ known' = Delete(known, usn)
              /\ order' = DeleteOrder(order, usn)
              /\ out' = do_byebye(known, sock[self], usn, "ok").out
              /\ last' = Op("unregister", self, usn, known[usn]["MANIFESTATION"],
                            None, None, "none")
         ELSE /\ UNCHANGED <<known, order>>
              /\ out' = << >>
              /\ last' = Op("unregister", self, usn, None, None, None, "KeyError")
      /\ UNCHANGED <<caller, live, sock, pc>>

\* unregister(usn): del self.known[usn], KeyError when usn is absent.  `last`
\* keeps the MANIFESTATION of the record that was removed.
unregister ==
    \E self \in live, usn \in USNS :
      /\ IF usn \in DOMAIN known
         THEN /\ known' = Delete(known, usn)
              /\ order' = DeleteOrder(order, usn)
              /\ last' = Op("unregister", self, usn, known[usn]["MANIFESTATION"],
                            None, None, "none")
         ELSE /\ UNCHANGED <<known, order>>
              /\ last' = Op("unregister", self, usn, None, None, None, "KeyError")
      /\ out' = << >>
      /\ UNCHANGED <<caller, live, sock, pc>>

\* start() and the first statement of run(): the thread exists and
\* self.sock is a new, unbound socket.
start ==
    \E self \in live :
      /\ pc[self] = "idle"
      /\ pc' = [pc EXCEPT ![self] = "setup"]
      /\ sock' = [sock EXCEPT ![self] = "socket"]
      /\ out' = << >>
      /\ last' = Op("start", self, None, None, None, None, "none")
      /\ UNCHANGED <<caller, known, order, live>>

\* run_bind that announces the first registered record once the socket is
\* bound.
run_bind_announces ==
    \E self \in live :
      /\ pc[self] = "setup"
      /\ pc' = [pc EXCEPT ![self] = "loop"]
      /\ out' = IF order = << >> THEN << >>
                ELSE do_notify(known, sock[self], order[1], "ok", "ok").out
      /\ last' = Op("run_bind", self, None, None, None, None, "none")
      /\ UNCHANGED <<caller, known, order, live, sock>>

\* run(): the socket options, the multicast join, bind and settimeout
\* succeed; the thread enters the receive loop.
run_bind ==
    \E self \in live :
      /\ pc[self] = "setup"
      /\ pc' = [pc EXCEPT ![self] = "loop"]
      /\ out' = << >>
      /\ last' = Op("run_bind", self, None, None, None, None, "none")
      /\ UNCHANGED <<caller, known, order, live, sock>>

\* run(): setsockopt or bind raises; the thread ends, self.sock stays set.
run_bind_fails ==
    \E self \in live :
      /\ pc[self] = "setup"
      /\ pc' = [pc EXCEPT ![self] = "dead"]
      /\ out' = << >>
      /\ last' = Op("run_bind", self, None, None, None, None, "socket.error")
      /\ UNCHANGED <<caller, known, order, live, sock>>

\* run(): recvfrom times out and the loop continues.
recv_timeout ==
    \E self \in live :
      /\ pc[self] = "loop"
      /\ out' = << >>
      /\ last' = Op("timeout", self, None, None, None, None, "none")
      /\ UNCHANGED <<caller, known, order, live, sock, pc>>

\* run() receives an M-SEARCH * datagram from src: datagram_received parses
\* it and calls discovery_request.  An exception that is not socket.timeout
\* leaves the while loop and ends the thread.
datagram_received ==
    \E self \in live, st \in ST_HEADERS, mx \in MX_HEADERS, src \in PEERS,
       now \in Times, fails \in {{}} \cup { {u} : u \in DOMAIN known } :
      /\ pc[self] = "loop"
      /\ \E r \in { discovery_request(known, order, sock[self],
                                      [st |-> st, mx |-> mx], src, now, fails) } :
           /\ out' = r.out
           /\ last' = Op("msearch", self, None, None, [st |-> st, mx |-> mx], src, r.exc)
           /\ pc' = [pc EXCEPT ![self] = IF r.exc = "none" THEN "loop" ELSE "dead"]
      /\ UNCHANGED <<caller, known, order, live, sock>>

\* The application calls do_notify(usn).
call_do_notify ==
    \E self \in live, usn \in USNS :
      \E n \in { do_notify(known, sock[self], usn, rs[1], rs[2]) : rs \in SendPairs } :
         /\ out' = n.out
         /\ last' = Op("do_notify", self, usn, None, None, None, n.exc)
         /\ UNCHANGED <<caller, known, order, live, sock, pc>>

\* The application calls do_byebye(usn).
call_do_byebye ==
    \E self \in live, usn \in USNS :
      \E b \in { do_byebye(known, sock[self], usn, res) : res \in SendResults } :
         /\ out' = b.out
         /\ last' = Op("do_byebye", self, usn, None, None, None, b.exc)
         /\ UNCHANGED <<caller, known, order, live, sock, pc>>

\* The application calls shutdown().
call_shutdown ==
    \E self \in live :
      \E s \in { shutdown(known, order, sock[self], res) : res \in SendResults } :
         /\ out' = s.out
         /\ last' = Op("shutdown", self, None, None, None, None, s.exc)
         /\ UNCHANGED <<caller, known, order, live, sock, pc>>

Next ==
    \/ register
    \/ unregister
    \/ start
    \/ run_bind
    \/ run_bind_fails
    \/ recv_timeout
    \/ datagram_received
    \/ call_do_notify
    \/ call_do_byebye
    \/ call_shutdown

Spec == Init /\ [][Next]_vars

(* ------------------------------------------------------------------ *)
(* The receive loop on the text of datagrams                            *)
(* ------------------------------------------------------------------ *)

\* Texts that peers send to the multicast group: well-formed queries, the
\* malformed ones (no blank line, a first line of one token, a header line
\* without a colon, no ST, MX absent, not a number or negative), a NOTIFY of
\* another device, another command and an empty datagram.
DATAGRAMS ==
    { "M-SEARCH * HTTP/1.1\r\nST: urn:test:device\r\nMX: 0\r\n\r\n",
      "M-SEARCH * HTTP/1.1\r\nHOST: 239.255.255.250:1900\r\nst:ssdp:all\r\nMX: 0\r\n\r\n",
      "M-SEARCH * HTTP/1.1\r\nST: urn:test:device\r\nMX: 0\r\n",
      "",
      "M-SEARCH\r\nST: upnp:rootdevice\r\nMX: 0\r\n\r\n",
      "M-SEARCH * HTTP/1.1\r\nST urn:test:device\r\nMX: 0\r\n\r\n",
      "M-SEARCH * HTTP/1.1\r\nMX: 0\r\n\r\n",
      "M-SEARCH * HTTP/1.1\r\nST: urn:test:device\r\n\r\n",
      "M-SEARCH * HTTP/1.1\r\nST: upnp:rootdevice\r\nMX: abc\r\n\r\n",
      "M-SEARCH * HTTP/1.1\r\nST: ssdp:all\r\nMX: -1\r\n\r\n",
      "NOTIFY * HTTP/1.1\r\nHOST: 239.255.255.250:1900\r\nNTS: ssdp:alive\r\nNT: upnp:rootdevice\r\nUSN: uuid:9\r\n\r\n",
      "GET / HTTP/1.1\r\n\r\n" }

\* The alive announcements of the records of kn as do_notify sends them: the
\* server is a member of the group it sends to and receives them too.
AliveTexts(kn) ==
    { Encode(d) : d \in UNION { LET n == do_notify(kn, "socket", u, "ok", "ok")
                                IN { n.out[m] : m \in 1..Len(n.out) } :
                                u \in DOMAIN kn } }

\* run(): recvfrom returns the text data from src and datagram_received
\* handles it.  An exception that is not socket.timeout leaves the while
\* loop and ends the thread.
run_recvfrom ==
    \E self \in live, src \in PEERS, now \in Times,
       data \in DATAGRAMS \cup AliveTexts(known),
       fails \in {{}, DOMAIN known} :
      /\ pc[self] = "loop"
      /\ \E r \in { datagram_received_data(known, order, sock[self], data, src,
                                           now, fails) } :
           /\ out' = r.out
           /\ last' = Op("datagram", self, None, [data |-> data, cmd |-> r.cmd],
                         r.headers, src, r.exc)
           /\ pc' = [pc EXCEPT ![self] = IF r.exc = "none" THEN "loop" ELSE "dead"]
      /\ UNCHANGED <<caller, known, order, live, sock>>

NextWire ==
    \/ register
    \/ unregister
    \/ start
    \/ run_bind
    \/ run_bind_fails
    \/ recv_timeout
    \/ run_recvfrom

SpecWire == Init /\ [][NextWire]_vars

(* ------------------------------------------------------------------ *)
(* Properties                                                           *)
(* ------------------------------------------------------------------ *)

\* The sends of the last operation whose USN header is u.
SendsFor(u) == SelectSeq(out, LAMBDA d : HeaderOf(d, "USN") = u)

\* The last operation handled an M-SEARCH whose MX is a non-negative integer.
ValidQuery ==
    /\ last.op = "msearch"
    /\ last.headers.st # NoHeader
    /\ \E n \in 0..MaxMX : last.headers.mx = ToString(n)
    /\ sock[last.self] # None

IsResponseTo(d, src) == d.start = "HTTP/1.1 200 OK" /\ d.dst = src /\ d.encoded

\* C1: a query for a search target s other than ssdp:all, with a valid MX, is
\* answered with exactly one response per record that is local and has ST = s,
\* with no response for any other record; each response carries the record's
\* USN and goes to the (host, port) the query came from.
C1_QueryAnswersMatchingLocal ==
    (ValidQuery /\ last.headers.st # "ssdp:all") =>
        /\ \A u \in USNS :
             Len(SendsFor(u)) =
                IF /\ u \in DOMAIN known
                   /\ known[u]["MANIFESTATION"] = "local"
                   /\ known[u]["ST"] = last.headers.st
                THEN 1 ELSE 0
        /\ \A n \in 1..Len(out) :
             /\ IsResponseTo(out[n], last.src)
             /\ HeaderOf(out[n], "USN") \in DOMAIN known

\* A query for a search target is answered for one of two registered records.
C1_Witness ==
    /\ ValidQuery
    /\ last.headers.st # "ssdp:all"
    /\ Cardinality(DOMAIN known) = 2
    /\ Len(out) = 1
    /\ \E u \in DOMAIN known : known[u]["ST"] = last.headers.st
                               /\ known[u]["MANIFESTATION"] = "remote"

\* C2: a query for ssdp:all with a valid MX is answered with exactly one
\* response per record that is local and not silent, and with none for a
\* record that is silent or remote.
C2_AllAnswersLocalNonSilent ==
    (ValidQuery /\ last.headers.st = "ssdp:all") =>
        /\ \A u \in USNS :
             Len(SendsFor(u)) =
                IF /\ u \in DOMAIN known
                   /\ known[u]["MANIFESTATION"] = "local"
                   /\ ~known[u]["SILENT"]
                THEN 1 ELSE 0
        /\ \A n \in 1..Len(out) :
             /\ IsResponseTo(out[n], last.src)
             /\ HeaderOf(out[n], "USN") \in DOMAIN known

\* An ssdp:all query meets a silent local record and a non-silent local one.
C2_Witness ==
    /\ ValidQuery
    /\ last.headers.st = "ssdp:all"
    /\ Len(out) = 1
    /\ \E u \in DOMAIN known : known[u]["SILENT"] /\ known[u]["MANIFESTATION"] = "local"

\* C3 as stated: whatever the search target of a query, no response is sent
\* for a record that is silent.
C3_SilentNeverAnswers ==
    last.op = "msearch" =>
        \A u \in DOMAIN known : known[u]["SILENT"] => Len(SendsFor(u)) = 0

\* C3, amended: a silent record is not answered for an ssdp:all query nor
\* for a query for another search target; a silent local record is answered,
\* once, for a valid query whose search target equals its own.
C3_SilentAnswersOwnTargetOnly ==
    last.op = "msearch" =>
        \A u \in DOMAIN known :
           known[u]["SILENT"] =>
              /\ Len(SendsFor(u)) > 0 =>
                    /\ last.headers.st = known[u]["ST"]
                    /\ last.headers.st # "ssdp:all"
              /\ ( /\ ValidQuery
                   /\ last.headers.st = known[u]["ST"]
                   /\ known[u]["MANIFESTATION"] = "local" )
                 => Len(SendsFor(u)) = 1

\* A silent local record is answered for a query for its own search target.
C3_Witness ==
    /\ ValidQuery
    /\ \E u \in DOMAIN known :
         /\ known[u]["SILENT"]
         /\ known[u]["ST"] = last.headers.st
         /\ Len(SendsFor(u)) = 1

\* C4: register, unregister, query handling and shutdown never send an
\* alive announcement, a byebye announcement or a response for a record
\* whose manifestation is remote.
C4_NothingSentForRemote ==
    last.op \in {"register", "unregister", "msearch", "shutdown"} =>
        \A u \in DOMAIN known :
           known[u]["MANIFESTATION"] = "remote" => Len(SendsFor(u)) = 0

\* shutdown() attempts a byebye while the registry holds a remote record.
C4_Witness ==
    /\ last.op = "shutdown"
    /\ Len(out) > 0
    /\ \E u \in DOMAIN known : known[u]["MANIFESTATION"] = "remote"

\* C5: after register(manifestation, usn, st, location, ...), whether usn
\* was absent or present, is_known(usn) holds, the registry has one entry
\* for usn whose USN, ST, LOCATION, SERVER, CACHE-CONTROL, MANIFESTATION,
\* SILENT and HOST are the arguments of this call, and the records of all
\* other usns are unchanged.
C5_RegisterStoresArguments ==
    [][ last'.op = "register" =>
          LET u == last'.usn
              a == last'.rec
          IN /\ u \in DOMAIN known'
             /\ Cardinality({ n \in 1..Len(order') : order'[n] = u }) = 1
             /\ known'[u]["USN"] = u
             /\ known'[u]["ST"] = a.st
             /\ known'[u]["LOCATION"] = a.location
             /\ known'[u]["SERVER"] = a.server
             /\ known'[u]["CACHE-CONTROL"] = a.cache_control
             /\ known'[u]["MANIFESTATION"] = a.manifestation
             /\ known'[u]["SILENT"] = a.silent
             /\ known'[u]["HOST"] = a.host
             /\ DOMAIN known' = DOMAIN known \cup {u}
             /\ \A v \in DOMAIN known \ {u} : known'[v] = known[v]
      ]_vars

\* register has replaced the record of a usn that was present, next to the
\* record of another usn: the key inserted first is the one just registered.
C5_Witness ==
    /\ last.op = "register"
    /\ Len(order) = 2
    /\ order[1] = last.usn
    /\ known[last.usn]["LOCATION"] = last.rec.location

\* C6: unregister(usn) of a usn that is in the registry removes that entry
\* and no other: is_known(usn) is false afterwards and every other record
\* is unchanged.
C6_UnregisterRemovesExactlyOne ==
    [][ (last'.op = "unregister" /\ last'.usn \in DOMAIN known) =>
          /\ last'.usn \notin DOMAIN known'
          /\ DOMAIN known' = DOMAIN known \ {last'.usn}
          /\ \A v \in DOMAIN known' : known'[v] = known[v]
          /\ last'.exc = "none"
      ]_vars

\* unregister has removed one record and left the record inserted before it.
C6_Witness ==
    /\ last.op = "unregister"
    /\ last.exc = "none"
    /\ ~is_known(last.usn)
    /\ Cardinality(DOMAIN known) = 1

\* C7: unregister(usn) of a usn that is not in the registry ends with the
\* not-found error (KeyError) and leaves the registry unchanged.
C7_UnregisterUnknownFails ==
    [][ (last'.op = "unregister" /\ last'.usn \notin DOMAIN known) =>
          /\ last'.exc = "KeyError"
          /\ known' = known
          /\ order' = order
      ]_vars

\* unregister of an unknown usn has failed on a registry that is not empty.
C7_Witness ==
    /\ last.op = "unregister"
    /\ last.exc = "KeyError"
    /\ Cardinality(DOMAIN known) = 1

\* The last operation ran do_notify(usn) for a record that is not silent, on
\* a socket: a direct call, or register of a local record.
NotifiedNonSilent ==
    /\ last.op \in {"do_notify", "register"}
    /\ sock[last.self] # None
    /\ last.usn \in DOMAIN known
    /\ known[last.usn]["MANIFESTATION"] = "local" \/ last.op = "do_notify"
    /\ ~known[last.usn]["SILENT"]

\* C8 as stated: do_notify for a record that is not silent calls sendto
\* twice, whatever the outcome of the first call, with the same content
\* containing NTS: ssdp:alive, both times to the multicast group.
C8_AliveSentTwiceUnconditionally ==
    NotifiedNonSilent =>
        /\ Len(out) = 2
        /\ \A n \in 1..Len(out) :
             /\ out[n].dst = <<"239.255.255.250", 1900>>
             /\ out[n].start = "NOTIFY * HTTP/1.1"
             /\ HeaderOf(out[n], "NTS") = "ssdp:alive"
             /\ out[n].headers = out[1].headers

\* C9: do_notify for a silent record sends nothing, so register of a silent
\* local record on a bound transport sends nothing.
C9_SilentNotAnnounced ==
    /\ ( /\ last.op = "do_notify"
         /\ last.usn \in DOMAIN known
         /\ known[last.usn]["SILENT"] ) => (out = << >> /\ last.exc = "none")
    /\ (last.op = "register" /\ last.rec.silent) => (out = << >> /\ last.exc = "none")

\* A silent local record has been registered while the receive loop runs.
C9_Witness ==
    /\ last.op = "register"
    /\ last.rec.silent
    /\ last.rec.manifestation = "local"
    /\ pc[last.self] = "loop"
    /\ out = << >>

\* C10 as stated: do_byebye for a record of the registry, on an open socket,
\* transmits one datagram to the multicast group that contains
\* NTS: ssdp:byebye and the record's USN, and returns normally.
C10_ByebyeSentOnce ==
    ( /\ last.op = "do_byebye"
      /\ last.usn \in DOMAIN known
      /\ sock[last.self] # None ) =>
        /\ Len(out) = 1
        /\ out[1].dst = <<"239.255.255.250", 1900>>
        /\ HeaderOf(out[1], "NTS") = "ssdp:byebye"
        /\ HeaderOf(out[1], "USN") = last.usn
        /\ out[1].res # "TypeError"
        /\ last.exc = "none"

\* The usns of the local records of the registry.
LocalUsns == { u \in DOMAIN known : known[u]["MANIFESTATION"] = "local" }

\* C11 as stated, with shutdown() as the request to stop (the class has no
\* other teardown entry point): once it is requested on a server whose
\* receive loop runs, the loop has ended, a byebye has been sent for every
\* local record, and the socket is closed.
C11_StopEndsLoopAnnouncesAndCloses ==
    [][ (last'.op = "shutdown" /\ pc[last'.self] = "loop") =>
          /\ pc'[last'.self] # "loop"
          /\ \A u \in LocalUsns :
               \E n \in 1..Len(out') :
                  /\ HeaderOf(out'[n], "USN") = u
                  /\ HeaderOf(out'[n], "NTS") = "ssdp:byebye"
          /\ sock'[last'.self] = None
      ]_vars

\* C14: a query whose MX header is missing or is not a number gets no
\* response, whatever the registry holds.
C14_BadMxNoResponse ==
    (last.op = "msearch" /\ last.headers.mx \in {NoHeader, "abc"}) => out = << >>

\* A query without a usable MX meets two local records with its search target.
C14_Witness ==
    /\ last.op = "msearch"
    /\ last.headers.mx \in {NoHeader, "abc"}
    /\ Cardinality({ u \in LocalUsns : known[u]["ST"] = last.headers.st }) = 2
    /\ last.exc \in {"KeyError", "ValueError"}
    /\ out = << >>

\* C15 as stated: register of a local record (that is not silent) sends an
\* alive announcement if and only if the transport is bound, that is, run()
\* has opened the socket, joined the group and bound the port; before
\* start(), during the set-up and after a failed bind it sends nothing.
C15_AliveOnlyWhenBound ==
    ( /\ last.op = "register"
      /\ last.rec.manifestation = "local"
      /\ ~last.rec.silent ) =>
        (out # << >> <=> pc[last.self] = "loop")

\* The header names of a message, in order.
HeaderNames(d) == [ n \in 1..Len(d.headers) |-> d.headers[n][1] ]

\* C18 as stated: a response is HTTP/1.1 200 OK followed by exactly the
\* headers USN, LOCATION, ST, EXT, SERVER, CACHE-CONTROL and DATE; ST is the
\* record's search target, EXT is empty, and no bookkeeping field
\* (manifestation, silent, host, last-seen) appears.
C18_ResponseHeaders ==
    last.op = "msearch" =>
        \A n \in 1..Len(out) :
           LET u == HeaderOf(out[n], "USN")
           IN /\ out[n].start = "HTTP/1.1 200 OK"
              /\ HeaderNames(out[n]) =
                    << "USN", "LOCATION", "ST", "EXT", "SERVER", "CACHE-CONTROL", "DATE" >>
              /\ u \in DOMAIN known
              /\ HeaderOf(out[n], "ST") = known[u]["ST"]
              /\ HeaderOf(out[n], "EXT") = ""

\* C20 as stated: unregister(usn) of a local record on a bound transport
\* sends a byebye announcement for usn.
C20_UnregisterAnnouncesByebye ==
    ( /\ last.op = "unregister"
      /\ last.exc = "none"
      /\ last.rec = "local"
      /\ pc[last.self] = "loop" ) =>
        \E n \in 1..Len(out) :
           /\ HeaderOf(out[n], "USN") = last.usn
           /\ HeaderOf(out[n], "NTS") = "ssdp:byebye"

\* C20, amended: unregister(usn) sends no datagram; it removes the entry
\* and announces nothing, also for a local record on a bound transport.
C20_UnregisterSendsNothing ==
    last.op = "unregister" => out = << >>

\* A local record has been unregistered while the receive loop runs.
C20_Witness ==
    /\ last.op = "unregister"
    /\ last.exc = "none"
    /\ last.rec = "local"
    /\ pc[last.self] = "loop"
    /\ out = << >>

\* C21: shutdown on an open socket attempts a byebye for every local record
\* and for no other record, whatever happens to the byebye of one of them.
C21_ShutdownAnnouncesEveryLocal ==
    (last.op = "shutdown" /\ sock[last.self] # None) =>
        \A u \in DOMAIN known :
            (\E n \in 1..Len(out) : /\ HeaderOf(out[n], "USN") = u
                                    /\ HeaderOf(out[n], "NTS") = "ssdp:byebye")
              <=> u \in LocalUsns

\* C22: do_byebye for a usn that is not in the registry returns normally,
\* sends nothing and leaves the registry as it was.
C22_ByebyeUnknownReturns ==
    [][ (last'.op = "do_byebye" /\ last'.usn \notin DOMAIN known) =>
          /\ last'.exc = "none"
          /\ out' = << >>
          /\ known' = known /\ order' = order ]_vars

\* do_byebye was called on an open socket for a usn that is not registered
\* while another record is.
C22_Witness ==
    /\ last.op = "do_byebye"
    /\ last.usn \notin DOMAIN known
    /\ known # << >>
    /\ sock[last.self] # None
    /\ last.exc = "none"
    /\ out = << >>

\* C23: when the sendto of a response fails, the handling of the query goes
\* on: nothing is raised, the registry and the loop are as before, and every
\* matching record has exactly one send (the failed one is not repeated).
C23_SendFailureSwallowed ==
    [][ (last'.op = "msearch" /\ \E n \in 1..Len(out') : out'[n].res = "socket.error") =>
          /\ last'.exc = "none"
          /\ known' = known /\ order' = order
          /\ pc'[last'.self] = "loop"
          /\ \A u \in DOMAIN known :
               Len(SelectSeq(out', LAMBDA d : HeaderOf(d, "USN") = u))
                 = IF Answers(known[u], last'.headers.st) THEN 1 ELSE 0 ]_vars

\* A query matched two records; the response for the first failed to send
\* and the response for the second was sent.
C23_Witness ==
    /\ last.op = "msearch"
    /\ Len(out) = 2
    /\ out[1].res = "socket.error"
    /\ out[2].res = "ok"
    /\ last.exc = "none"

(* ------------------------------------------------------------------ *)
(* Two server objects                                                   *)
(* ------------------------------------------------------------------ *)

\* The state after SSDPServer() has been called twice.
InitTwo ==
    /\ known = << >>
    /\ order = << >>
    /\ live = {"A", "B"}
    /\ sock = [ s \in AllServers |-> None ]
    /\ pc = [ s \in AllServers |-> "idle" ]
    /\ out = << >>
    /\ last = Op("init", None, None, None, None, None, "none")
    /\ caller = NoCall

NextTwo ==
    \/ register
    \/ unregister

SpecTwo == InitTwo /\ [][NextTwo]_vars

\* self.known as object self sees it: `known` is bound once, in the class
\* body, and no method rebinds it on an instance, so the attribute lookup
\* ends at the one dict of the class for every object.
registry(self) == known

\* The records object self answers some query for.
AnsweredBy(self) ==
    { registry(self)[u] : u \in { v \in DOMAIN registry(self) :
          \E st \in STS \cup {"ssdp:all"} : Answers(registry(self)[v], st) } }

\* C17: register and unregister on object A change neither what is_known
\* returns on object B nor the records B answers queries for.
C17_RegistryPerInstance ==
    [][ (last'.op \in {"register", "unregister"} /\ last'.self = "A") =>
          /\ DOMAIN registry("B")' = DOMAIN registry("B")
          /\ AnsweredBy("B")' = AnsweredBy("B") ]_vars

(* ------------------------------------------------------------------ *)
(* register() on a caller thread beside the receive loop                *)
(* ------------------------------------------------------------------ *)

\* The server has been started and its thread is in the receive loop.
InitThreads ==
    /\ known = << >>
    /\ order = << >>
    /\ live = {"A"}
    /\ sock = [ s \in AllServers |-> IF s = "A" THEN "socket" ELSE None ]
    /\ pc = [ s \in AllServers |-> IF s = "A" THEN "loop" ELSE "idle" ]
    /\ out = << >>
    /\ last = Op("init", None, None, None, None, None, "none")
    /\ caller = NoCall

\* register(), first statement: self.known[usn] = {}.  No lock is taken, so
\* the receive loop may run between this statement and the next.
register_begin ==
    \E self \in live, manifestation \in {"local", "remote"}, usn \in USNS,
       call \in CALLS, silent \in BOOLEAN, now \in Times :
      /\ caller = NoCall
      /\ known' = Store(known, usn, << >>)
      /\ order' = StoreOrder(known, order, usn)
      /\ caller' = [ op |-> "register", self |-> self, usn |-> usn, n |-> 0,
                     rec |-> NewRecord(manifestation, usn, call.st, call.location,
                                       call.server, call.cache_control, silent,
                                       call.host, now),
                     size |-> 0, written |-> FALSE ]
      /\ out' = << >>
      /\ last' = Op("register_store", self, usn, None, None, None, "none")
      /\ UNCHANGED <<live, sock, pc>>

\* register(), one of the statements self.known[usn][key] = value, in the
\* order of the source.
register_set ==
    /\ caller.op = "register"
    /\ caller.n < Len(RecordKeys)
    /\ LET key == RecordKeys[caller.n + 1]
           i   == known[caller.usn]
       IN known' = Store(known, caller.usn,
                         [ k \in DOMAIN i \cup {key} |->
                             IF k = key THEN caller.rec[key] ELSE i[k] ])
    /\ caller' = [caller EXCEPT !.n = caller.n + 1]
    /\ out' = << >>
    /\ last' = Op("register_store", caller.self, caller.usn, None, None, None, "none")
    /\ UNCHANGED <<order, live, sock, pc>>

\* register(), last statement: do_notify if the record is local and
\* self.sock is set; register returns.
register_end ==
    /\ caller.op = "register"
    /\ caller.n = Len(RecordKeys)
    /\ \E n \in IF caller.rec["MANIFESTATION"] = "local" /\ sock[caller.self] # None
                THEN { do_notify(known, sock[caller.self], caller.usn, rs[1], rs[2]) :
                         rs \in SendPairs }
                ELSE { NoSends } :
         /\ out' = n.out
         /\ last' = Op("register", caller.self, caller.usn, None, None, None, n.exc)
    /\ caller' = NoCall
    /\ UNCHANGED <<known, order, live, sock, pc>>

NextThreads ==
    \/ register_begin
    \/ register_set
    \/ register_end
    \/ datagram_received

SpecThreads == InitThreads /\ [][NextThreads]_vars

\* C16: when the receive loop handles a query, every record of the registry
\* has MANIFESTATION, SILENT, ST and USN: the responder never reads a record
\* that register is still writing.
C16_ResponderReadsCompleteRecords ==
    (last.op = "msearch" /\ last.headers.st # NoHeader) =>
        \A u \in DOMAIN known :
            {"MANIFESTATION", "SILENT", "ST", "USN"} \subseteq DOMAIN known[u]

(* ------------------------------------------------------------------ *)
(* shutdown() on one thread beside register and unregister on another   *)
(* ------------------------------------------------------------------ *)

\* Has register or unregister run since the previous step of shutdown()?
\* They are the only operations that run beside it, and each sets `last`.
WrittenSince == last.op \in {"register", "unregister"}

\* shutdown(), `for st in self.known`: the iterator over the dict itself is
\* created; it remembers the size of the dict.
shutdown_iter ==
    \E self \in live :
      /\ caller.op = None
      /\ caller' = [ op |-> "shutdown_for", self |-> self, usn |-> None, n |-> 0,
                     rec |-> << >>, size |-> Len(order), written |-> FALSE ]
      /\ out' = << >>
      /\ last' = Op("shutdown_step", self, None, None, None, None, "none")
      /\ UNCHANGED <<known, order, live, sock, pc>>

\* shutdown(), the iterator's next(): RuntimeError when the size of the dict
\* is not the remembered one.  When the dict was written to and has its old
\* size again, the entry the iterator reaches is left open by the language:
\* any key, or the end.  Otherwise the keys come in insertion order.
shutdown_next ==
    /\ caller.op = "shutdown_for"
    /\ \E st \in (IF Len(order) # caller.size THEN {"RuntimeError"}
                  ELSE IF caller.written \/ WrittenSince
                       THEN {"StopIteration"} \cup DOMAIN known
                  ELSE IF caller.n = Len(order) THEN {"StopIteration"}
                  ELSE {order[caller.n + 1]}) :
         IF st = "RuntimeError"
         THEN /\ caller' = NoCall
              /\ last' = Op("shutdown", caller.self, None, None, None, None, "RuntimeError")
         ELSE IF st = "StopIteration"
         THEN /\ caller' = NoCall
              /\ last' = Op("shutdown", caller.self, None, None, None, None, "none")
         ELSE /\ caller' = [caller EXCEPT !.op = "shutdown_if", !.usn = st,
                                          !.n = IF caller.written \/ WrittenSince
                                                THEN 0 ELSE caller.n + 1,
                                          !.written = caller.written \/ WrittenSince]
              /\ last' = Op("shutdown_step", caller.self, None, None, None, None, "none")
    /\ out' = << >>
    /\ UNCHANGED <<known, order, live, sock, pc>>

\* shutdown(), `if self.known[st]['MANIFESTATION'] == 'local'`: KeyError,
\* which nothing catches, when st is no longer in the dict.
shutdown_if ==
    /\ caller.op = "shutdown_if"
    /\ IF caller.usn \notin DOMAIN known
       THEN /\ caller' = NoCall
            /\ last' = Op("shutdown", caller.self, caller.usn, None, None, None, "KeyError")
       ELSE /\ caller' = [caller EXCEPT
                            !.op = IF known[caller.usn]["MANIFESTATION"] = "local"
                                   THEN "shutdown_call" ELSE "shutdown_for",
                            !.usn = IF known[caller.usn]["MANIFESTATION"] = "local"
                                    THEN caller.usn ELSE None,
                            !.written = caller.written \/ WrittenSince]
            /\ last' = Op("shutdown_step", caller.self, None, None, None, None, "none")
    /\ out' = << >>
    /\ UNCHANGED <<known, order, live, sock, pc>>

\* shutdown(), `self.do_byebye(st)`: an exception of do_byebye ends shutdown.
shutdown_call ==
    /\ caller.op = "shutdown_call"
    /\ \E b \in { do_byebye(known, sock[caller.self], caller.usn, res) :
                    res \in SendResults } :
         /\ out' = b.out
         /\ IF b.exc # "none"
            THEN /\ caller' = NoCall
                 /\ last' = Op("shutdown", caller.self, caller.usn, None, None, None, b.exc)
            ELSE /\ caller' = [caller EXCEPT !.op = "shutdown_for", !.usn = None,
                                             !.written = caller.written \/ WrittenSince]
                 /\ last' = Op("shutdown_step", caller.self, None, None, None, None, "none")
    /\ UNCHANGED <<known, order, live, sock, pc>>

NextStop ==
    \/ register
    \/ unregister
    \/ shutdown_iter
    \/ shutdown_next
    \/ shutdown_if
    \/ shutdown_call

SpecStop == Init /\ [][NextStop]_vars

\* C26: shutdown() beside register and unregister on another thread ends
\* without the iteration over the registry failing (RuntimeError) and without
\* looking up a usn that has been removed (KeyError).
C26_ShutdownBesideRegistryWrites ==
    last.op = "shutdown" => last.exc \notin {"RuntimeError", "KeyError"}

(* ------------------------------------------------------------------ *)
(* Datagram texts (SpecWire)                                            *)
(* ------------------------------------------------------------------ *)

\* C12: whatever the text of a received datagram, handling it ends with the
\* receive loop still running.
C12_DatagramNeverEndsLoop ==
    last.op = "datagram" => (last.exc = "none" /\ pc[last.self] = "loop")

\* A datagram text without the blank line that ends the header.
LacksSeparator(data) == find(data, CRLF \o CRLF, 1) = 0

\* The well-formed queries among DATAGRAMS.
ValidQueries ==
    { q \in DATAGRAMS :
        /\ ~LacksSeparator(q)
        /\ LET p == parse(unpack(q).header)
           IN /\ p.exc = "none"
              /\ p.cmd[1] = "M-SEARCH" /\ p.cmd[2] = "*"
              /\ Get(p.headers, "st") # NoHeader
              /\ MxError(Get(p.headers, "mx")) = "none" }

\* C13: a datagram without the blank line is dropped: handling it raises
\* nothing, sends nothing, leaves the registry as it was, and every valid
\* query is afterwards answered as it would have been before.
C13_NoSeparatorDropped ==
    [][ (last'.op = "datagram" /\ LacksSeparator(last'.rec.data)) =>
          /\ last'.exc = "none"
          /\ out' = << >>
          /\ known' = known /\ order' = order
          /\ pc'[last'.self] = "loop"
          /\ \A q \in ValidQueries, src \in PEERS, now \in Times :
               datagram_received_data(known', order', sock'[last'.self], q, src, now, {})
                 = datagram_received_data(known, order, sock[last'.self], q, src, now, {})
        ]_vars

\* A datagram without the blank line was handled while a local record that a
\* query would be answered for is registered.
C13_Witness ==
    /\ last.op = "datagram"
    /\ LacksSeparator(last.rec.data)
    /\ last.rec.data # ""
    /\ pc[last.self] = "loop"
    /\ \E q \in ValidQueries, src \in PEERS :
         datagram_received_data(known, order, sock[last.self], q, src, 1, {}).out # << >>

\* C19: an alive announcement of a registered record, parsed by
\* datagram_received, gives the command NOTIFY * and the headers usn, nt and
\* location equal to the record's USN, ST and LOCATION.
C19_AliveRoundTrip ==
    \A u \in DOMAIN known :
      (last.op = "datagram" /\ last.rec.data \in AliveTexts([ v \in {u} |-> known[u] ])) =>
        /\ last.exc = "none"
        /\ last.rec.cmd[1] = "NOTIFY" /\ last.rec.cmd[2] = "*"
        /\ Get(last.headers, "usn") = known[u]["USN"]
        /\ Get(last.headers, "nt") = known[u]["ST"]
        /\ Get(last.headers, "location") = known[u]["LOCATION"]

\* The announcement of a record whose location and usn contain colons was
\* received and parsed.
C19_Witness ==
    /\ last.op = "datagram"
    /\ \E u \in DOMAIN known :
         /\ last.rec.data \in AliveTexts([ v \in {u} |-> known[u] ])
         /\ find(known[u]["LOCATION"], ":", 1) > 0
         /\ find(known[u]["USN"], ":", 1) > 0
         /\ find(known[u]["ST"], ":", 1) > 0
         /\ Get(last.headers, "location") = known[u]["LOCATION"]

\* C24: receiving never writes to the registry and only M-SEARCH * sends:
\* the registry changes in register and unregister only; a receive timeout
\* and a datagram whose command is NOTIFY * or any other pair that is not
\* M-SEARCH * send nothing.
C24_ReceivingLeavesRegistry ==
    [][ /\ (known' # known \/ order' # order) => last'.op \in {"register", "unregister"}
        /\ last'.op = "timeout" => out' = << >>
        /\ (last'.op = "datagram" /\ Len(last'.rec.cmd) >= 2
              /\ ~(last'.rec.cmd[1] = "M-SEARCH" /\ last'.rec.cmd[2] = "*")) =>
             (out' = << >> /\ last'.exc = "none")
      ]_vars

\* A NOTIFY * for a search target that a registered local record has was
\* received, and nothing was sent.
C24_Witness ==
    /\ last.op = "datagram"
    /\ Len(last.rec.cmd) >= 2
    /\ last.rec.cmd[1] = "NOTIFY" /\ last.rec.cmd[2] = "*"
    /\ \E u \in LocalUsns : known[u]["ST"] = Get(last.headers, "nt") /\ ~known[u]["SILENT"]
    /\ out = << >>

\* An alive announcement among the sends of d.
IsAlive(d) == d.start = "NOTIFY * HTTP/1.1" /\ HeaderOf(d, "NTS") = "ssdp:alive"

\* C25: alive announcements are sent by a register call on a socket that is
\* already open, for the usn being registered, and by nothing else: start(),
\* the bind and the receive loop announce nothing.
C25_AliveOnlyFromRegister ==
    [][ (\E n \in 1..Len(out') : IsAlive(out'[n])) =>
          /\ last'.op = "register"
          /\ sock[last'.self] # None
          /\ \A n \in 1..Len(out') : HeaderOf(out'[n], "USN") = last'.usn ]_vars

\* start() ran while a local record that is not silent was registered, and
\* nothing was announced.
C25_Witness ==
    /\ last.op = "start"
    /\ sock[last.self] # None
    /\ \E u \in LocalUsns : ~known[u]["SILENT"]
    /\ out = << >>

====
